---- MODULE Spec2Model ----
(***************************************************************************)
(* qiboml.operations.expectation: the dispatcher expectation(), the two    *)
(* plain evaluators _exact and _with_shots, and the two custom-gradient    *)
(* bridges (_with_tf and _with_torch/_TorchDifferentiableExpectation).     *)
(*                                                                         *)
(* The execution backend, the observable and the differentiation rule are  *)
(* collaborators outside the module.  Their results are kept as symbolic   *)
(* terms (records naming the call and its arguments), so that two values   *)
(* are equal exactly when they come from the same call on the same         *)
(* arguments; every execute_circuit call and every call of the rule is     *)
(* recorded with the keyword arguments it received.                        *)
(***************************************************************************)
EXTENDS Integers, Sequences, FiniteSets

VARIABLES session, nodes, last

vars == <<session, nodes, last>>

----------------------------------------------------------------------------
(* Bounds of the model. *)

\* gradient nodes that may be waiting for their backward pass at one time
MaxNodes == 2
\* parametrized gates of a circuit
MaxGates == 2
\* largest shot count a caller asks for
MaxShots == 1

----------------------------------------------------------------------------
(* Inputs. *)

None == "None"

\* Optional[int]: the empty tuple is Python's None, <<n>> is the integer n
NoShots == <<>>

TensorflowBackend == "TensorflowBackend"
PyTorchBackend == "PyTorchBackend"
NumpyBackend == "NumpyBackend"

\* observable.backend, the frontend the user's code runs on
Frontends == {TensorflowBackend, PyTorchBackend, NumpyBackend}

\* nshots as the caller may pass it: None, or any integer
ShotCounts == {NoShots} \cup {<<n>> : n \in -1..MaxShots}

\* parameters a gate carries (RY, RZ: one; two-angle gates: two)
GateArities == {1, 2}

\* a circuit is the sequence of its parametrized gates, each gate the tuple
\* of its angles; layers are built with every angle 0
Circuits ==
    UNION {[1..g -> {[j \in 1..k |-> 0] : k \in GateArities}] : g \in 0..MaxGates}

\* (observable.matrix, initial_state, exec_backend) as the caller builds them
Environments ==
    { [observable |-> "Z0", initial_state |-> None,   exec_backend |-> NumpyBackend],
      [observable |-> "X0", initial_state |-> "psi0", exec_backend |-> "HardwareBackend"] }

\* the objects a caller builds once and passes to every call
Sessions ==
    { [frontend |-> f, observable |-> e.observable, circuit |-> c,
       initial_state |-> e.initial_state, exec_backend |-> e.exec_backend] :
      f \in Frontends, e \in Environments, c \in Circuits }

DifferentiationRules == {None, "parameter_shift"}

\* upstream gradients handed to a node by the host framework
Upstreams == {-2, 0, 3}

\* the arguments of one call
CallArgs(s, nshots, differentiation_rule) ==
    [frontend |-> s.frontend, observable |-> s.observable, circuit |-> s.circuit,
     initial_state |-> s.initial_state, nshots |-> nshots,
     exec_backend |-> s.exec_backend,
     differentiation_rule |-> differentiation_rule]

----------------------------------------------------------------------------
(* Collaborators. *)

RECURSIVE SumLen(_)
SumLen(s) == IF s = <<>> THEN 0 ELSE Len(Head(s)) + SumLen(Tail(s))

\* circuit.get_parameters(): one tuple of angles per parametrized gate
get_parameters(circuit) == [i \in 1..Len(circuit) |-> circuit[i]]

\* number of trainable parameters of the circuit
nparams(circuit) == SumLen(get_parameters(circuit))

\* exec_backend.execute_circuit(circuit=, initial_state=[, nshots=]): the
\* result names the backend and the arguments it was called with; what a
\* backend does with the arguments is its own business and is not decided here
execute_circuit(exec_backend, circuit, initial_state, nshots) ==
    [exec_backend |-> exec_backend, circuit |-> circuit,
     initial_state |-> initial_state, nshots |-> nshots]

\* what the rule may return on one call: one entry per trainable parameter,
\* all zero, all one or of mixed sign
RuleOutputs(kwargs) ==
    LET P == nparams(kwargs.circuit)
    IN  { [p \in 1..P |-> 0], [p \in 1..P |-> 1],
          [p \in 1..P |-> IF p % 2 = 1 THEN -p ELSE p] }

----------------------------------------------------------------------------
(* Values computed by the collaborators, as symbolic terms. *)

\* observable.matrix
matrix(observable) == [matrix_of |-> observable]

\* exec_backend.cast(x)
cast(exec_backend, x) == [cast_by |-> exec_backend, array |-> x]

\* result.state()
state(result) == [state_of |-> result]

\* exec_backend.calculate_expectation_state(hamiltonian=, state=, normalize=)
calculate_expectation_state(exec_backend, hamiltonian, st, normalize) ==
    [data |-> [fn |-> "calculate_expectation_state", on |-> exec_backend,
               operator |-> hamiltonian, over |-> st, normalize |-> normalize],
     dtype |-> "native"]

\* result.expectation_from_samples(observable)
expectation_from_samples(result, observable) ==
    [data |-> [fn |-> "expectation_from_samples", on |-> result.exec_backend,
               operator |-> observable, over |-> result, normalize |-> FALSE],
     dtype |-> "native"]

\* tensor.clone().detach().to(dtype=torch.float64): same data, float64
clone_detach_float64(tensor) == [data |-> tensor.data, dtype |-> "float64"]

\* shape of torch.tensor(x) for a list x of equally long tuples; the empty
\* list gives a tensor of shape (0,)
TensorShape(x) == IF x = <<>> THEN <<0>> ELSE <<Len(x), Len(x[1])>>

\* torch.tensor(x) raises ValueError on a list of tuples of unequal length
IsRagged(x) == \E i, j \in 1..Len(x) : Len(x[i]) # Len(x[j])

----------------------------------------------------------------------------
(* The plain evaluators.  Each returns its value and the execute_circuit   *)
(* calls it made.                                                          *)

_exact(observable, circuit, initial_state, exec_backend) ==
    LET result == execute_circuit(exec_backend, circuit, initial_state, NoShots)
    IN  [value |-> calculate_expectation_state(
                       exec_backend, cast(exec_backend, matrix(observable)),
                       state(result), FALSE),
         executed |-> <<result>>]

_with_shots(observable, circuit, initial_state, nshots, exec_backend) ==
    LET result == execute_circuit(exec_backend, circuit, initial_state, nshots)
    IN  [value |-> expectation_from_samples(result, observable),
         executed |-> <<result>>]

----------------------------------------------------------------------------
(* What one call leaves behind: whether it raised, the error, the value    *)
(* returned (a tuple of zero or one value), the execute_circuit calls and  *)
(* the calls of the differentiation rule it made, and the gradient node it *)
(* registered with the host framework (a tuple of zero or one node).       *)

Returned(route, ev, node) ==
    [route |-> route, raised |-> FALSE, error |-> None, value |-> <<ev.value>>,
     executed |-> ev.executed, rule_calls |-> <<>>, node |-> node]

Raised(route, error) ==
    [route |-> route, raised |-> TRUE, error |-> error, value |-> <<>>,
     executed |-> <<>>, rule_calls |-> <<>>, node |-> <<>>]

----------------------------------------------------------------------------
(* TensorFlow bridge. *)

\* the keyword arguments _with_tf prepares for the rule
_with_tf_kwargs(a) ==
    LET kwargs == [hamiltonian |-> a.observable, circuit |-> a.circuit,
                   initial_state |-> a.initial_state,
                   exec_backend |-> a.exec_backend,
                   nshots |-> IF a.nshots # NoShots THEN a.nshots ELSE NoShots]
    IN  IF a.nshots # NoShots THEN [kwargs EXCEPT !.nshots = a.nshots] ELSE kwargs

\* body of _expectation(params): the forward value
_expectation(a) ==
    IF a.nshots = NoShots
    THEN _exact(a.observable, a.circuit, a.initial_state, a.exec_backend)
    ELSE _with_shots(a.observable, a.circuit, a.initial_state, a.nshots,
                     a.exec_backend)

_with_tf(a) ==
    LET params == get_parameters(a.circuit)
        closure == [kwargs |-> _with_tf_kwargs(a),
                    differentiation_rule |-> a.differentiation_rule]
    IN  Returned("_with_tf", _expectation(a),
                 <<[bridge |-> "tf", inputs |-> a, params |-> params,
                    captured |-> closure]>>)

\* variant: the rule called once per parameter of the circuit
grad_rule_calls_PerParameter(closure) ==
    [p \in 1..nparams(closure.kwargs.circuit) |->
        [rule |-> closure.differentiation_rule, kwargs |-> closure.kwargs]]

\* the calls grad(upstream) makes: differentiation_rule(**kwargs), once
grad_rule_calls(closure) ==
    <<[rule |-> closure.differentiation_rule, kwargs |-> closure.kwargs]>>

\* variant: the last entry of the rule's answer left out
grad_DropLast(closure, upstream, r) ==
    [p \in 1..(IF Len(r) = 0 THEN 0 ELSE Len(r) - 1) |-> upstream * r[p]]

\* grad(upstream), r being what the rule returned:
\* tf.unstack(upstream * tf.stack(r))
grad(closure, upstream, r) == [p \in 1..Len(r) |-> upstream * r[p]]

----------------------------------------------------------------------------
(* PyTorch bridge. *)

\* variant: forward evaluating exactly whatever nshots is
forward_AlwaysExact(params, a) ==
    LET ev == _exact(a.observable, a.circuit, a.initial_state, a.exec_backend)
    IN  Returned("_with_torch",
                 [value |-> clone_detach_float64(ev.value), executed |-> ev.executed],
                 <<[bridge |-> "torch", inputs |-> a, params |-> params,
                    captured |-> [saved_tensors |-> <<params>>,
                                  observable |-> a.observable,
                                  circuit |-> a.circuit,
                                  initial_state |-> a.initial_state,
                                  nshots |-> a.nshots,
                                  exec_backend |-> a.exec_backend,
                                  differentiation_rule |-> a.differentiation_rule]]>>)

\* _TorchDifferentiableExpectation.forward: saves its inputs in ctx and
\* evaluates the expectation value
forward(params, a) ==
    LET ctx == [saved_tensors |-> <<params>>, observable |-> a.observable,
                circuit |-> a.circuit, initial_state |-> a.initial_state,
                nshots |-> a.nshots, exec_backend |-> a.exec_backend,
                differentiation_rule |-> a.differentiation_rule]
        result == execute_circuit(a.exec_backend, a.circuit, a.initial_state,
                                  a.nshots)
        expval == IF a.nshots = NoShots
                  THEN calculate_expectation_state(
                           a.exec_backend,
                           cast(a.exec_backend, matrix(a.observable)),
                           state(result), FALSE)
                  ELSE expectation_from_samples(result, a.observable)
    IN  Returned("_with_torch",
                 [value |-> clone_detach_float64(expval), executed |-> <<result>>],
                 <<[bridge |-> "torch", inputs |-> a, params |-> params,
                    captured |-> ctx]>>)

_with_torch(a) ==
    IF IsRagged(get_parameters(a.circuit))
    THEN Raised("_with_torch", "ValueError: torch.tensor")
    ELSE forward([shape |-> TensorShape(get_parameters(a.circuit)),
                  dtype |-> "float64", requires_grad |-> TRUE], a)

\* variant: the rule called without the shot count of the forward pass
backward_rule_calls_NoShots(ctx) ==
    <<[rule |-> ctx.differentiation_rule,
       kwargs |-> [hamiltonian |-> ctx.observable, circuit |-> ctx.circuit,
                   initial_state |-> ctx.initial_state,
                   exec_backend |-> ctx.exec_backend, nshots |-> NoShots]]>>

\* the calls backward(ctx, grad_output) makes: differentiation_rule(**kwargs),
\* once, on keyword arguments read back from ctx
backward_rule_calls(ctx) ==
    <<[rule |-> ctx.differentiation_rule,
       kwargs |-> [hamiltonian |-> ctx.observable, circuit |-> ctx.circuit,
                   initial_state |-> ctx.initial_state,
                   exec_backend |-> ctx.exec_backend, nshots |-> ctx.nshots]]>>

\* variant: the rule's answer returned without the upstream factor
backward_NoChainRule(ctx, grad_output, r) ==
    <<[shape |-> <<Len(r), 1>>, data |-> [p \in 1..Len(r) |-> <<r[p]>>]],
      None, None, None, None, None, None>>

\* backward(ctx, grad_output), r being what the rule returned:
\* (grad_output * torch.tensor(r))[:, None], then one None per other input
backward(ctx, grad_output, r) ==
    LET gradients == [shape |-> <<Len(r), 1>>,
                      data |-> [p \in 1..Len(r) |-> <<grad_output * r[p]>>]]
    IN  <<gradients, None, None, None, None, None, None>>

----------------------------------------------------------------------------
(* Dispatcher. *)

\* variant: the frontend looked at before the rule
expectation_FrontendFirst(a) ==
    IF a.frontend = TensorflowBackend THEN _with_tf(a)
    ELSE IF a.frontend = PyTorchBackend THEN _with_torch(a)
    ELSE IF a.differentiation_rule # None
    THEN Raised("raise_error", "ValueError: interface not supported")
    ELSE IF a.nshots = NoShots
    THEN Returned("_exact",
                  _exact(a.observable, a.circuit, a.initial_state,
                         a.exec_backend), <<>>)
    ELSE Returned("_with_shots",
                  _with_shots(a.observable, a.circuit, a.initial_state,
                              a.nshots, a.exec_backend), <<>>)

\* variant: an unsupported frontend falling through to plain evaluation
expectation_NoRaise(a) ==
    IF a.differentiation_rule # None /\ a.frontend = TensorflowBackend
    THEN _with_tf(a)
    ELSE IF a.differentiation_rule # None /\ a.frontend = PyTorchBackend
    THEN _with_torch(a)
    ELSE IF a.nshots = NoShots
    THEN Returned("_exact",
                  _exact(a.observable, a.circuit, a.initial_state,
                         a.exec_backend), <<>>)
    ELSE Returned("_with_shots",
                  _with_shots(a.observable, a.circuit, a.initial_state,
                              a.nshots, a.exec_backend), <<>>)

expectation(a) ==
    IF a.differentiation_rule # None
    THEN IF a.frontend = TensorflowBackend THEN _with_tf(a)
         ELSE IF a.frontend = PyTorchBackend THEN _with_torch(a)
         ELSE Raised("raise_error", "ValueError: interface not supported")
    ELSE IF a.nshots = NoShots
    THEN Returned("_exact",
                  _exact(a.observable, a.circuit, a.initial_state,
                         a.exec_backend), <<>>)
    ELSE Returned("_with_shots",
                  _with_shots(a.observable, a.circuit, a.initial_state,
                              a.nshots, a.exec_backend), <<>>)

----------------------------------------------------------------------------
(* State machine.  nodes: the gradient nodes whose forward pass is done    *)
(* and whose backward pass the host framework has not run yet, oldest      *)
(* first.  last: the most recent operation and everything it did.          *)

NoOp == [op |-> "none"]

Init ==
    /\ session \in Sessions
    /\ nodes = <<>>
    /\ last = NoOp

\* one call of expectation(observable, circuit, initial_state, nshots,
\* exec_backend, differentiation_rule) on the session's objects
Expectation(nshots, differentiation_rule) ==
    LET a == CallArgs(session, nshots, differentiation_rule)
        e == expectation(a)
    IN  /\ UNCHANGED session
        /\ Len(nodes) + Len(e.node) <= MaxNodes
        /\ nodes' = nodes \o e.node
        /\ last' = [op |-> "expectation", args |-> a, route |-> e.route,
                    raised |-> e.raised, error |-> e.error, value |-> e.value,
                    executed |-> e.executed, rule_calls |-> e.rule_calls,
                    node |-> e.node]

Remove(s, i) == [j \in 1..(Len(s) - 1) |-> IF j < i THEN s[j] ELSE s[j + 1]]

\* variant: backward run on the context of the node made last
Backward_LatestContext(i, upstream, r) ==
    LET node == nodes[i]
        latest == nodes[Len(nodes)]
    IN  /\ i \in 1..Len(nodes)
        /\ UNCHANGED session
        /\ nodes' = Remove(nodes, i)
        /\ last' = [op |-> "backward", node |-> node, upstream |-> upstream,
                    rule_result |-> r,
                    rule_calls |-> IF latest.bridge = "tf"
                                   THEN grad_rule_calls(latest.captured)
                                   ELSE backward_rule_calls(latest.captured),
                    output |-> IF node.bridge = "tf"
                               THEN grad(node.captured, upstream, r)
                               ELSE backward(node.captured, upstream, r)]

\* the host framework backpropagates upstream into the i-th pending node; the
\* rule answers r; the node is discarded afterwards
Backward(i, upstream, r) ==
    LET node == nodes[i]
    IN  /\ i \in 1..Len(nodes)
        /\ UNCHANGED session
        /\ nodes' = Remove(nodes, i)
        /\ last' = [op |-> "backward", node |-> node, upstream |-> upstream,
                    rule_result |-> r,
                    rule_calls |-> IF node.bridge = "tf"
                                   THEN grad_rule_calls(node.captured)
                                   ELSE backward_rule_calls(node.captured),
                    output |-> IF node.bridge = "tf"
                               THEN grad(node.captured, upstream, r)
                               ELSE backward(node.captured, upstream, r)]

Next ==
    \/ \E nshots \in ShotCounts, rule \in DifferentiationRules :
         Expectation(nshots, rule)
    \/ \E i \in 1..Len(nodes), upstream \in Upstreams :
         \E r \in RuleOutputs(nodes[i].inputs) : Backward(i, upstream, r)

Spec == Init /\ [][Next]_vars

----------------------------------------------------------------------------
(* Vocabulary of the properties. *)

IsCall == last.op = "expectation"

IsBackward == last.op = "backward"

Bridged(frontend) == frontend \in {TensorflowBackend, PyTorchBackend}

\* entries of the parameter gradient a backward pass returned
GradientEntries ==
    IF last.node.bridge = "tf" THEN Len(last.output)
    ELSE Len(last.output[1].data)

\* entry p of the parameter gradient a backward pass returned
GradientEntry(p) ==
    IF last.node.bridge = "tf" THEN last.output[p]
    ELSE last.output[1].data[p][1]

\* the value the plain evaluator gives on the arguments a
PlainValue(a) ==
    IF a.nshots = NoShots
    THEN _exact(a.observable, a.circuit, a.initial_state, a.exec_backend).value
    ELSE _with_shots(a.observable, a.circuit, a.initial_state, a.nshots,
                     a.exec_backend).value

\* the keyword arguments kw carry the execution context of the arguments a
SameContext(kw, a) ==
    /\ kw.hamiltonian = a.observable
    /\ kw.circuit = a.circuit
    /\ kw.initial_state = a.initial_state
    /\ kw.exec_backend = a.exec_backend
    /\ kw.nshots = a.nshots

----------------------------------------------------------------------------
(* C1: a call with differentiation_rule = None, whatever the frontend,      *)
(* builds no gradient node, enters neither bridge and returns exactly what *)
(* _exact gives when nshots is None and what _with_shots gives otherwise.  *)

C1_PlainDispatch ==
    (IsCall /\ last.args.differentiation_rule = None) =>
        /\ last.node = <<>>
        /\ last.route \notin {"_with_tf", "_with_torch"}
        /\ last.rule_calls = <<>>
        /\ ~last.raised
        /\ last.value = <<PlainValue(last.args)>>
        /\ last.route = IF last.args.nshots = NoShots THEN "_exact"
                        ELSE "_with_shots"

C1_Witness ==
    /\ IsCall
    /\ last.args.differentiation_rule = None
    /\ last.args.frontend = PyTorchBackend
    /\ last.args.nshots = <<1>>
    /\ last.value = <<PlainValue(last.args)>>

(* C2: a rule together with a frontend that is neither TensorFlow nor      *)
(* PyTorch makes the call raise (the ValueError of raise_error, the        *)
(* unsupported-interface failure) with nothing done: no execute_circuit    *)
(* call, no call of the rule, no node, the caller's objects as they were.  *)

C2_UnsupportedInterface ==
    (/\ IsCall
     /\ last.args.differentiation_rule # None
     /\ ~Bridged(last.args.frontend)) =>
        /\ last.raised
        /\ last.error = "ValueError: interface not supported"
        /\ last.value = <<>>
        /\ last.executed = <<>>
        /\ last.rule_calls = <<>>
        /\ last.node = <<>>
        /\ nodes = <<>>
        /\ last.args = CallArgs(session, last.args.nshots,
                                last.args.differentiation_rule)

C2_Witness ==
    /\ IsCall
    /\ last.args.differentiation_rule # None
    /\ last.args.frontend = NumpyBackend
    /\ last.args.nshots = <<1>>
    /\ last.raised

(* C3: a zero or negative nshots, on the sampled route and on both         *)
(* bridges, fails with the invalid-shot-count error before any             *)
(* execute_circuit call.                                                   *)

C3_InvalidShotsRejected ==
    (/\ IsCall
     /\ last.args.nshots # NoShots
     /\ last.args.nshots[1] <= 0
     /\ (last.args.differentiation_rule = None \/ Bridged(last.args.frontend))) =>
        /\ last.raised
        /\ last.error = "InvalidShotCountError"
        /\ last.executed = <<>>

(* C4: the gradient a backward pass returns has one entry per trainable    *)
(* parameter of the node's circuit, none when the circuit has none.        *)

C5_ChainRule ==
    IsBackward =>
        \A p \in 1..Len(last.rule_result) :
            /\ p <= GradientEntries
            /\ GradientEntry(p) = last.upstream * last.rule_result[p]

C5_Witness ==
    /\ IsBackward
    /\ last.upstream = -2
    /\ last.rule_result = <<-1, 2>>
    /\ GradientEntry(1) = 2
    /\ GradientEntry(2) = -4

(* C6: the rule is called in backward with the observable, circuit,        *)
(* initial state, backend and shot count of the node's forward pass; the   *)
(* forward pass executed the circuit with that same shot count.            *)

C6_SameShots ==
    /\ (IsCall /\ last.node # <<>>) =>
           /\ last.node[1].inputs = last.args
           /\ last.executed # <<>>
           /\ \A k \in 1..Len(last.executed) :
                  last.executed[k].nshots = last.args.nshots
    /\ IsBackward =>
           /\ last.rule_calls # <<>>
           /\ \A k \in 1..Len(last.rule_calls) :
                  SameContext(last.rule_calls[k].kwargs, last.node.inputs)

C6_Witness ==
    /\ IsBackward
    /\ last.node.bridge = "torch"
    /\ last.node.inputs.nshots = <<1>>
    /\ last.rule_calls[1].kwargs.nshots = <<1>>

(* C7, as claimed: one backward pass calls the rule once per parameter     *)
(* index p in [0, P), each call receiving p.                               *)

C8_BridgeForward ==
    (IsCall /\ last.args.differentiation_rule # None) =>
        /\ (last.route = "_with_tf") <=> (last.args.frontend = TensorflowBackend)
        /\ (last.route = "_with_torch") <=> (last.args.frontend = PyTorchBackend)
        /\ (Bridged(last.args.frontend) /\ ~last.raised) =>
               /\ Len(last.value) = 1
               /\ last.value[1].data = PlainValue(last.args).data
               /\ Len(last.executed) = 1
               /\ last.executed[1] =
                      execute_circuit(last.args.exec_backend, last.args.circuit,
                                      last.args.initial_state, last.args.nshots)

C8_Witness ==
    /\ IsCall
    /\ last.route = "_with_torch"
    /\ ~last.raised
    /\ last.args.nshots = <<1>>
    /\ last.value[1].data.fn = "expectation_from_samples"

(* C9: every call with a rule that returns makes a node of its own; a      *)
(* backward pass runs on a node whose forward pass is complete, calls the  *)
(* rule that node captured on the context that node captured, whatever     *)
(* other nodes are pending, and discards the node; no forward pass calls   *)
(* the rule.                                                               *)

C9_ForwardStep ==
    (last'.op = "expectation") =>
        /\ last'.rule_calls = <<>>
        /\ nodes' = nodes \o last'.node
        /\ (/\ last'.args.differentiation_rule # None
            /\ Bridged(last'.args.frontend)
            /\ ~last'.raised) =>
               /\ Len(last'.node) = 1
               /\ last'.node[1].inputs = last'.args

C9_BackwardStep ==
    (last'.op = "backward") =>
        /\ \E i \in 1..Len(nodes) :
               nodes[i] = last'.node /\ nodes' = Remove(nodes, i)
        /\ \A k \in 1..Len(last'.rule_calls) :
               /\ last'.rule_calls[k].rule = last'.node.inputs.differentiation_rule
               /\ SameContext(last'.rule_calls[k].kwargs, last'.node.inputs)

C9_NodeLifecycle == [][C9_ForwardStep /\ C9_BackwardStep]_vars

C9_Witness ==
    /\ IsBackward
    /\ Len(nodes) = 1
    /\ nodes[1].inputs # last.node.inputs
    /\ SameContext(last.rule_calls[1].kwargs, last.node.inputs)

(* C10: backward of the PyTorch bridge returns seven entries, one per      *)
(* input of forward: the parameter gradient, shaped like the params tensor *)
(* forward received, then None six times.                                  *)

C10_TorchBackwardShape ==
    (IsBackward /\ last.node.bridge = "torch") =>
        /\ Len(last.output) = 7
        /\ \A i \in 2..7 : last.output[i] = None
        /\ last.output[1].shape = last.node.params.shape

====
